---- MODULE Spec2Model ----
(***************************************************************************)
(* Blood-donation backend (Express + MongoDB + Stripe + Firebase auth).    *)
(* The model follows the server of src/unnamed/part_000: every route is a  *)
(* chain of middlewares (verifyFBToken, verifyAdmin / verifyDonor /        *)
(* verifyVolunteer) followed by the handler; every `await` on the storage  *)
(* backend or on the payment provider is one atomic step, and steps of     *)
(* different in-flight HTTP calls interleave freely (section 5 of the      *)
(* design: no in-process locking, the store is the only shared state).     *)
(* src/index.js holds two earlier revisions of the same server pasted one  *)
(* after the other; it records what some handlers were meant to do.        *)
(***************************************************************************)
EXTENDS Integers, Sequences, FiniteSets, TLC

VARIABLES
    users,      \* userCollection: sequence of documents, _id = position
    requests,   \* requestCollection: set of documents with unique _id
    payments,   \* paymentCollection: sequence of documents (insertion order)
    nextId,     \* next request _id the driver hands out
    calls,      \* the HTTP calls: one record per connection slot
    started     \* number of calls accepted so far

vars == <<users, requests, payments, nextId, calls, started>>

-----------------------------------------------------------------------------
(* Bounds of the model                                                     *)

NProcs == 2          \* connection slots (calls in flight at once)
MaxCalls == 2        \* calls accepted in one behaviour of Spec
MaxClaimCalls == 3   \* calls accepted in one behaviour of ClaimSpec
MaxPayCalls == 4     \* calls accepted in one behaviour of PaySpec, PaySeqSpec
MaxListCalls == 3    \* calls accepted in one behaviour of ListSeqSpec
MaxReadCalls == 2    \* calls accepted in one behaviour of ReadSeqSpec
MaxSeqCalls == 2     \* calls accepted in one behaviour of SeqSpec
MaxReqs == 2         \* request ids handed out (one is stored initially)
MaxUsers == 6        \* user documents (four are stored initially)
MaxPays == 3         \* payment documents

Procs == 1..NProcs

-----------------------------------------------------------------------------
(* Values                                                                  *)

NULL == "NULL"                       \* JS undefined / BSON null / absent field
NoHeader == "NoHeader"               \* no Authorization header
BadToken == "BadToken"               \* a header verifyIdToken rejects

Emails == {"a", "d1", "d2", "v", "x"}   \* identities the auth provider knows
Tokens == Emails \cup {NoHeader, BadToken}

ReqStatuses == {"pending", "inprogress", "done", "canceled"}
BodyStatuses == ReqStatuses \cup {"bogus", NULL}   \* what a body may carry
UserStatuses == {"active", "blocked"}
QueryStatuses == UserStatuses \cup {"bogus"}
Roles == {"donor", "volunteer", "admin"}
DonorNames == {"n", NULL}

\* the user documents stored when the server starts: an admin, two donors
\* and a volunteer; d2 and v are active or blocked
InitUsers(sd, sv) ==
    << [email |-> "a",  role |-> "admin",     status |-> "active"],
       [email |-> "d1", role |-> "donor",     status |-> "active"],
       [email |-> "d2", role |-> "donor",     status |-> sd],
       [email |-> "v",  role |-> "volunteer", status |-> sv] >>

InitRequests ==
    { [id |-> 1, requesterEmail |-> "d1", status |-> "pending",
       donorEmail |-> NULL, donorName |-> NULL] }

\* stripe.checkout.sessions.retrieve: the provider's sessions
Sessions ==
    { [sid |-> "s1", payment_status |-> "paid",   payment_intent |-> "pi1",
       amount_total |-> 2500, customer_email |-> "d1"],
      [sid |-> "s2", payment_status |-> "paid",   payment_intent |-> "pi2",
       amount_total |-> 700,  customer_email |-> "d2"],
      [sid |-> "s3", payment_status |-> "unpaid", payment_intent |-> NULL,
       amount_total |-> 900,  customer_email |-> "d2"] }

-----------------------------------------------------------------------------
(* Storage operations (MongoDB driver)                                     *)

\* userCollection.findOne({email}): first matching document, or NULL
FindUserIdx(email) ==
    LET hits == {i \in 1..Len(users) : users[i].email = email}
    IN  IF hits = {} THEN 0
        ELSE CHOOSE i \in hits : \A j \in hits : i <= j

HasUser(email) == FindUserIdx(email) # 0
FindUser(email) == users[FindUserIdx(email)]

\* requestCollection.findOne({_id})
FindRequest(id) == {r \in requests : r.id = id}

\* requestCollection.updateOne(filter, {$set: ...}): the documents in hit are
\* replaced by their patched versions
UpdateRequests(hit, patched) == (requests \ hit) \cup patched

\* paymentCollection.findOne({transactionId})
FindPayment(txn) == {i \in 1..Len(payments) : payments[i].transactionId = txn}

-----------------------------------------------------------------------------
(* HTTP calls                                                              *)

Ops == {"createUser", "setUserStatus", "makeVolunteer", "patchProfile",
        "createRequest", "claim", "ownerStatus", "adminStatus",
        "volunteerStatus", "ownerDelete", "adminDelete", "successPayment",
        "myRequests", "volunteerRequests"}

\* the routes that only read: they are served like the others, by the
\* clients of the specifications that name them
ReadOps == {"adminRequests", "getRequest", "getRole"}

\* app.<verb>(path, ...middlewares, handler): the middlewares of each route
Chain(op) ==
    CASE op \in {"setUserStatus", "makeVolunteer", "adminStatus", "adminDelete",
                 "adminRequests"}
            -> <<"verifyFBToken", "verifyAdmin", "handler">>
      [] op \in {"createRequest", "myRequests", "ownerStatus", "ownerDelete"}
            -> <<"verifyFBToken", "verifyDonor", "handler">>
      [] op \in {"volunteerStatus", "volunteerRequests"}
            -> <<"verifyFBToken", "verifyVolunteer", "handler">>
      [] op \in {"patchProfile", "claim", "getRequest"}
            -> <<"verifyFBToken", "handler">>
      [] OTHER -> <<"handler">>

\* next(): the stage after `stage` in the route of op
NextStage(op, stage) ==
    LET c == Chain(op)
        i == CHOOSE k \in 1..Len(c) : c[k] = stage
    IN  c[i + 1]

NoRes == [code |-> 0, body |-> NULL]
Res(code, body) == [code |-> code, body |-> body]

\* a connection slot: the route, the bearer token (after verifyFBToken it is
\* req.decoded_email), the stage the call is at, the handler's locals
\* (id: req.params.id or the inserted _id, key: body.email / body.status /
\* body.requesterEmail / the session id; page, size: the paging of a list;
\* found: what the handler read from the store; total: the count it read;
\* amount: body.donateAmount) and the response sent
Idle == [op |-> NULL, token |-> NULL, stage |-> "idle", id |-> 0,
         key |-> NULL, page |-> 0, size |-> 0, found |-> << >>, total |-> 0,
         amount |-> [units |-> 0, hundredths |-> 0], res |-> NoRes]

\* res.send / res.status(c).send: the call ends
Respond(q, code, body) ==
    calls' = [calls EXCEPT ![q].stage = "done", ![q].res = Res(code, body)]

Goto(q, stage) == calls' = [calls EXCEPT ![q].stage = stage]

\* the same for a handler that read req.params.id and one field of req.body
Answer(q, id, key, code, body) ==
    calls' = [calls EXCEPT ![q].stage = "done", ![q].id = id, ![q].key = key,
                           ![q].res = Res(code, body)]

Stores == <<users, requests, payments, nextId>>

Init ==
    /\ \E sd \in UserStatuses, sv \in UserStatuses : users = InitUsers(sd, sv)
    /\ requests = InitRequests
    /\ payments = << >>
    /\ nextId = 2
    /\ calls = [q \in Procs |-> Idle]
    /\ started = 0

\* the slot a new call takes: the first one never used, else the first one
\* whose call has ended
FreeSlot(q) ==
    \/ /\ calls[q].stage = "idle"
       /\ \A p \in Procs : p < q => calls[p].stage # "idle"
    \/ /\ calls[q].stage = "done"
       /\ \A p \in Procs : calls[p].stage # "idle"
       /\ \A p \in Procs : p < q => calls[p].stage # "done"

\* a client opens a call: Express dispatches it to the route's first stage
Accept(q, op, token, limit) ==
    /\ FreeSlot(q)
    /\ started < limit
    /\ token \in (IF Chain(op)[1] = "verifyFBToken" THEN Tokens ELSE {NULL})
    /\ started' = started + 1
    /\ calls' = [calls EXCEPT ![q] =
                   [Idle EXCEPT !.op = op, !.token = token,
                                !.stage = Chain(op)[1]]]
    /\ UNCHANGED Stores

Start(q, op, token) == Accept(q, op, token, MaxCalls)

-----------------------------------------------------------------------------
(* Middlewares                                                             *)

verifyFBToken(q) ==
    /\ calls[q].stage = "verifyFBToken"
    /\ IF calls[q].token \in {NoHeader, BadToken}
       THEN Respond(q, 401, "Unauthorized")
       ELSE Goto(q, NextStage(calls[q].op, "verifyFBToken"))
    /\ UNCHANGED <<Stores, started>>

\* RoleGuard without the `user.status === "blocked"` test
RoleGuardNoBlockedTest(email, role, blockable) ==
    IF ~HasUser(email) \/ FindUser(email).role # role THEN "wrong role"
    ELSE "next"

\* RoleGuard on the user documents as they were when the server started
\* (role and status looked up once and kept)
RoleGuardCached(email, role, blockable) ==
    LET cache == InitUsers("active", "active")
        hits == {i \in 1..Len(cache) : cache[i].email = email}
    IN  IF hits = {} \/ (\E i \in hits : cache[i].role # role)
        THEN "wrong role"
        ELSE IF blockable /\ (\E i \in hits : cache[i].status = "blocked")
        THEN "blocked"
        ELSE "next"

\* the outcome of a role guard for the stored user of `email`
RoleGuard(email, role, blockable) ==
    IF ~HasUser(email) \/ FindUser(email).role # role THEN "wrong role"
    ELSE IF blockable /\ FindUser(email).status = "blocked" THEN "blocked"
    ELSE "next"

\* verifyAdmin with the `user.status === "blocked"` test of the other guards
verifyAdminBlockable(q) ==
    /\ calls[q].stage = "verifyAdmin"
    /\ IF RoleGuard(calls[q].token, "admin", TRUE) = "next"
       THEN Goto(q, NextStage(calls[q].op, "verifyAdmin"))
       ELSE Respond(q, 403, "Forbidden")
    /\ UNCHANGED <<Stores, started>>

verifyAdmin(q) ==
    /\ calls[q].stage = "verifyAdmin"
    /\ IF RoleGuard(calls[q].token, "admin", FALSE) = "next"
       THEN Goto(q, NextStage(calls[q].op, "verifyAdmin"))
       ELSE Respond(q, 403, "Forbidden")
    /\ UNCHANGED <<Stores, started>>

verifyVolunteer(q) ==
    /\ calls[q].stage = "verifyVolunteer"
    /\ LET g == RoleGuard(calls[q].token, "volunteer", TRUE)
       IN  CASE g = "next" -> Goto(q, NextStage(calls[q].op, "verifyVolunteer"))
             [] g = "wrong role" -> Respond(q, 403, "Volunteer only")
             [] g = "blocked" -> Respond(q, 403, "User is blocked")
    /\ UNCHANGED <<Stores, started>>

\* verifyDonor whose rejection does not end the call (a missing `return`)
verifyDonorFallsThrough(q) ==
    /\ calls[q].stage = "verifyDonor"
    /\ IF RoleGuard(calls[q].token, "donor", TRUE) = "next"
       THEN Goto(q, NextStage(calls[q].op, "verifyDonor"))
       ELSE calls' = [calls EXCEPT
                        ![q].stage = NextStage(calls[q].op, "verifyDonor"),
                        ![q].res = Res(403, "Donor only")]
    /\ UNCHANGED <<Stores, started>>

verifyDonor(q) ==
    /\ calls[q].stage = "verifyDonor"
    /\ LET g == RoleGuard(calls[q].token, "donor", TRUE)
       IN  CASE g = "next" -> Goto(q, NextStage(calls[q].op, "verifyDonor"))
             [] g = "wrong role" -> Respond(q, 403, "Donor only")
             [] g = "blocked" -> Respond(q, 403, "User is blocked")
    /\ UNCHANGED <<Stores, started>>

-----------------------------------------------------------------------------
(* Users                                                                   *)

\* POST /users: findOne({email}), then insertOne
CreateUserFind(q) ==
    /\ calls[q].op = "createUser" /\ calls[q].stage = "handler"
    /\ \E email \in Emails :
          IF HasUser(email)
          THEN Respond(q, 200, "User already exists")
          ELSE calls' = [calls EXCEPT ![q].stage = "insertOne", ![q].key = email]
    /\ UNCHANGED <<Stores, started>>

CreateUserInsert(q) ==
    /\ calls[q].op = "createUser" /\ calls[q].stage = "insertOne"
    /\ Len(users) < MaxUsers
    /\ users' = Append(users, [email |-> calls[q].key, role |-> "donor",
                               status |-> "active"])
    /\ Respond(q, 200, "inserted")
    /\ UNCHANGED <<requests, payments, nextId, started>>

\* GET /users/role/:email: res.send({role: user?.role, status: user?.status})
GetRole(q) ==
    /\ calls[q].op = "getRole" /\ calls[q].stage = "handler"
    /\ \E email \in Emails :
          LET role == IF HasUser(email) THEN FindUser(email).role ELSE NULL
              status == IF HasUser(email) THEN FindUser(email).status ELSE NULL
          IN  calls' = [calls EXCEPT ![q].stage = "done", ![q].key = email,
                                     ![q].found = <<role, status>>,
                                     ![q].res = Res(200, "role, status")]
    /\ UNCHANGED <<Stores, started>>

\* PATCH /update/user/status?email=&status=
SetUserStatus(q) ==
    /\ calls[q].op = "setUserStatus" /\ calls[q].stage = "handler"
    /\ \E email \in Emails, status \in QueryStatuses :
          LET i == FindUserIdx(email)
          IN  IF i = 0
              THEN /\ users' = users
                   /\ Respond(q, 200, "matched:0")
              ELSE /\ users' = [users EXCEPT ![i].status = status]
                   /\ Respond(q, 200, "matched:1")
    /\ UNCHANGED <<requests, payments, nextId, started>>

\* PATCH /users/make-volunteer/:id
MakeVolunteer(q) ==
    /\ calls[q].op = "makeVolunteer" /\ calls[q].stage = "handler"
    /\ \E id \in 1..MaxUsers :
          IF id > Len(users)
          THEN /\ users' = users
               /\ Respond(q, 200, "matched:0")
          ELSE /\ users' = [users EXCEPT ![id].role = "volunteer"]
               /\ Respond(q, 200, "matched:1")
    /\ UNCHANGED <<requests, payments, nextId, started>>

\* the bodies a profile edit may carry, after `delete _id; delete email`:
\* NULL is an absent field, every other field of the body is $set as it is
ProfileBodies ==
    { [role |-> NULL,        status |-> NULL],
      [role |-> "admin",     status |-> NULL],
      [role |-> "volunteer", status |-> NULL],
      [role |-> NULL,        status |-> "active"],
      [role |-> NULL,        status |-> "blocked"] }

SetFields(u, body) ==
    [u EXCEPT !.role = IF body.role = NULL THEN @ ELSE body.role,
              !.status = IF body.status = NULL THEN @ ELSE body.status]

\* PATCH /profile
PatchProfile(q) ==
    /\ calls[q].op = "patchProfile" /\ calls[q].stage = "handler"
    /\ \E body \in ProfileBodies :
          LET i == FindUserIdx(calls[q].token)
          IN  IF i = 0
              THEN /\ users' = users
                   /\ Respond(q, 200, "matched:0")
              ELSE /\ users' = [users EXCEPT ![i] = SetFields(@, body)]
                   /\ Respond(q, 200, "matched:1")
    /\ UNCHANGED <<requests, payments, nextId, started>>

-----------------------------------------------------------------------------
(* Donation requests                                                       *)

ReqIds == 1..MaxReqs
BodyDonors == {NULL, "d2"}     \* a donorEmail field a create body may carry

\* the bodies a create may carry: NULL is an absent field; the last one
\* forges the server-assigned fields
RequestBodies ==
    { [requesterEmail |-> NULL, status |-> NULL, donorEmail |-> de] :
         de \in BodyDonors }
    \cup { [requesterEmail |-> "d2", status |-> "done", donorEmail |-> NULL] }

\* NewRequest where the fields of the body win over the server's
\* ({requesterEmail, status, ...req.body})
NewRequestBodyWins(id, body, email) ==
    [id |-> id,
     requesterEmail |-> IF body.requesterEmail = NULL THEN email
                        ELSE body.requesterEmail,
     status |-> IF body.status = NULL THEN "pending" ELSE body.status,
     donorEmail |-> body.donorEmail, donorName |-> NULL]

\* the document POST /requests inserts: data = req.body, then
\* data.requesterEmail = req.decoded_email and data.status = "pending"
NewRequest(id, body, email) ==
    LET data == [id |-> id, requesterEmail |-> body.requesterEmail,
                 status |-> body.status, donorEmail |-> body.donorEmail,
                 donorName |-> NULL]
    IN  [data EXCEPT !.requesterEmail = email, !.status = "pending"]

\* POST /requests
CreateRequest(q) ==
    /\ calls[q].op = "createRequest" /\ calls[q].stage = "handler"
    /\ nextId <= MaxReqs
    /\ \E body \in RequestBodies :
          /\ requests' = requests \cup
                            {NewRequest(nextId, body, calls[q].token)}
          /\ Answer(q, nextId, body.requesterEmail, 200, "inserted")
    /\ nextId' = nextId + 1
    /\ UNCHANGED <<users, payments, started>>

\* req.query.page / req.query.size as Number() reads them: 0 stands for an
\* absent, non-numeric or zero parameter
QueryPages == 0..2
QuerySizes == 0..2

DefaultPage == 1
DefaultSize == 10

\* Number(x) || dflt
NumberOr(x, dflt) == IF x = 0 THEN dflt ELSE x

\* createdAt of a stored request: new Date() at its insert; inserts are
\* numbered in the order they reach the store
CreatedAt(r) == r.id

\* cursor.sort({createdAt: -1}): the documents of S, latest first
RECURSIVE SortCreatedDesc(_)
SortCreatedDesc(S) ==
    IF S = {} THEN << >>
    ELSE LET latest == CHOOSE r \in S :
                          \A o \in S : CreatedAt(o) <= CreatedAt(r)
         IN  <<latest>> \o SortCreatedDesc(S \ {latest})

\* cursor.skip(n), cursor.limit(n)
Skip(seq, n) == IF n >= Len(seq) THEN << >> ELSE SubSeq(seq, n + 1, Len(seq))
Limit(seq, n) == IF n >= Len(seq) THEN seq ELSE SubSeq(seq, 1, n)

\* the query of a list route: {requesterEmail: email} for /my-requests, none
\* for /admin/requests
ListOps == {"myRequests", "adminRequests"}
ListQuery(op, email) ==
    IF op = "myRequests" THEN {r \in requests : r.requesterEmail = email}
    ELSE requests

\* CountDocuments on the whole collection, whatever the query of the page
CountDocumentsUnfiltered(op, email) == Cardinality(requests)

\* requestCollection.countDocuments(query)
CountDocuments(op, email) == Cardinality(ListQuery(op, email))

\* GET /my-requests and GET /admin/requests, first await:
\* find(query).sort({createdAt: -1}).skip(size * (page - 1)).limit(size)
ListFind(q) ==
    /\ calls[q].op \in ListOps /\ calls[q].stage = "handler"
    /\ \E qp \in QueryPages, qs \in QuerySizes :
          LET page == NumberOr(qp, DefaultPage)
              size == NumberOr(qs, DefaultSize)
              sorted == SortCreatedDesc(ListQuery(calls[q].op, calls[q].token))
              docs == Limit(Skip(sorted, size * (page - 1)), size)
          IN  calls' = [calls EXCEPT
                          ![q].stage = "countDocuments",
                          ![q].page = page, ![q].size = size,
                          ![q].found = [k \in 1..Len(docs) |-> docs[k].id]]
    /\ UNCHANGED <<Stores, started>>

\* second await: countDocuments(query), then res.send({requests, total})
ListCount(q) ==
    /\ calls[q].op \in ListOps /\ calls[q].stage = "countDocuments"
    /\ calls' = [calls EXCEPT
                    ![q].stage = "done",
                    ![q].total = CountDocuments(calls[q].op, calls[q].token),
                    ![q].res = Res(200, "requests, total")]
    /\ UNCHANGED <<Stores, started>>

\* GET /my-requests
MyRequestsFind(q) == calls[q].op = "myRequests" /\ ListFind(q)
MyRequestsCount(q) == calls[q].op = "myRequests" /\ ListCount(q)

\* GET /admin/requests
AdminRequestsFind(q) == calls[q].op = "adminRequests" /\ ListFind(q)
AdminRequestsCount(q) == calls[q].op = "adminRequests" /\ ListCount(q)

\* GET /volunteer/requests: find(query).toArray()
VolunteerRequests(q) ==
    /\ calls[q].op = "volunteerRequests" /\ calls[q].stage = "handler"
    /\ Respond(q, 200, "requests")
    /\ UNCHANGED <<Stores, started>>

\* a req.params.id that is not the 24 hex digits of an ObjectId
MalformedId == -1

\* the routes that build `new ObjectId(req.params.id)` for their filter
IdOps == {"getRequest", "claim", "ownerStatus", "adminStatus",
          "volunteerStatus", "ownerDelete", "adminDelete", "makeVolunteer"}

\* what the caller sees when an async handler throws: nothing (Express 4
\* leaves the rejected promise unhandled) or the default error response
\* (Express 5)
ThrowOutcomes == {NoRes, Res(500, "Internal Server Error")}

\* the handler of a route of IdOps called with a malformed id: the ObjectId
\* constructor throws while the filter is built, before the storage call
NewObjectIdThrows(q) ==
    /\ calls[q].op \in IdOps /\ calls[q].stage = "handler"
    /\ \E out \in ThrowOutcomes :
          calls' = [calls EXCEPT ![q].stage = "done", ![q].id = MalformedId,
                                 ![q].res = out]
    /\ UNCHANGED <<Stores, started>>

\* GET /donation-requests/:id
GetRequest(q) ==
    /\ calls[q].op = "getRequest" /\ calls[q].stage = "handler"
    /\ \E id \in ReqIds :
          IF FindRequest(id) = {}
          THEN Answer(q, id, NULL, 404, "Not found")
          ELSE calls' = [calls EXCEPT ![q].stage = "done", ![q].id = id,
                                      ![q].found = <<id>>,
                                      ![q].res = Res(200, "request")]
    /\ UNCHANGED <<Stores, started>>

\* ClaimFind without the `request.status !== "pending"` test
ClaimFindNoStatusTest(q) ==
    /\ calls[q].op = "claim" /\ calls[q].stage = "handler"
    /\ \E id \in ReqIds :
          IF FindRequest(id) = {}
          THEN Answer(q, id, NULL, 400, "Not available")
          ELSE calls' = [calls EXCEPT ![q].stage = "updateOne", ![q].id = id]
    /\ UNCHANGED <<Stores, started>>

\* PATCH /donation-requests/:id, first await: findOne and the status check
ClaimFind(q) ==
    /\ calls[q].op = "claim" /\ calls[q].stage = "handler"
    /\ \E id \in ReqIds :
          LET request == FindRequest(id)
          IN  IF request = {} \/ (\E r \in request : r.status # "pending")
              THEN Answer(q, id, NULL, 400, "Not available")
              ELSE calls' = [calls EXCEPT ![q].stage = "updateOne", ![q].id = id]
    /\ UNCHANGED <<Stores, started>>

\* the filter of the claim's updateOne
ClaimFilter(id) == {r \in requests : r.id = id}

\* PATCH /donation-requests/:id, second await: updateOne({_id}, {$set: ...})
ClaimUpdate(q) ==
    /\ calls[q].op = "claim" /\ calls[q].stage = "updateOne"
    /\ \E dn \in DonorNames :
          LET hit == ClaimFilter(calls[q].id)
              Patch(r) == [r EXCEPT !.status = "inprogress",
                                    !.donorEmail = calls[q].token,
                                    !.donorName = dn]
          IN  /\ requests' = UpdateRequests(hit, {Patch(r) : r \in hit})
              /\ Respond(q, 200, IF hit = {} THEN "matched:0" ELSE "matched:1")
    /\ UNCHANGED <<users, payments, nextId, started>>

\* OwnerFilter without the requesterEmail condition
OwnerFilterByIdOnly(id, email) == {r \in requests : r.id = id}

\* the filter of the owner-scoped updateOne / deleteOne
OwnerFilter(id, email) ==
    {r \in requests : r.id = id /\ r.requesterEmail = email}

\* PATCH /requests/status/:id: the status of the body is $set as it is
OwnerStatus(q) ==
    /\ calls[q].op = "ownerStatus" /\ calls[q].stage = "handler"
    /\ \E id \in ReqIds, status \in BodyStatuses :
          LET hit == OwnerFilter(id, calls[q].token)
              Patch(r) == [r EXCEPT !.status = status]
          IN  /\ requests' = UpdateRequests(hit, {Patch(r) : r \in hit})
              /\ Answer(q, id, status, 200,
                        IF hit = {} THEN "matched:0" ELSE "matched:1")
    /\ UNCHANGED <<users, payments, nextId, started>>

\* OverrideStatus with a filter that leaves closed (done, canceled) requests
\* alone
OverrideStatusFromOpen(q) ==
    \E id \in ReqIds, status \in BodyStatuses :
       LET hit == {r \in FindRequest(id) : r.status \notin {"done", "canceled"}}
           Patch(r) == [r EXCEPT !.status = status]
       IN  /\ requests' = UpdateRequests(hit, {Patch(r) : r \in hit})
           /\ Answer(q, id, status, 200,
                     IF hit = {} THEN "matched:0" ELSE "matched:1")

\* the body of the two privileged overrides
OverrideStatus(q) ==
    \E id \in ReqIds, status \in BodyStatuses :
       LET hit == FindRequest(id)
           Patch(r) == [r EXCEPT !.status = status]
       IN  /\ requests' = UpdateRequests(hit, {Patch(r) : r \in hit})
           /\ Answer(q, id, status, 200,
                     IF hit = {} THEN "matched:0" ELSE "matched:1")

\* PATCH /admin/requests/status/:id
AdminStatus(q) ==
    /\ calls[q].op = "adminStatus" /\ calls[q].stage = "handler"
    /\ OverrideStatus(q)
    /\ UNCHANGED <<users, payments, nextId, started>>

\* PATCH /volunteer/requests/status/:id
VolunteerStatus(q) ==
    /\ calls[q].op = "volunteerStatus" /\ calls[q].stage = "handler"
    /\ OverrideStatus(q)
    /\ UNCHANGED <<users, payments, nextId, started>>

\* DELETE /requests/:id
OwnerDelete(q) ==
    /\ calls[q].op = "ownerDelete" /\ calls[q].stage = "handler"
    /\ \E id \in ReqIds :
          LET hit == OwnerFilter(id, calls[q].token)
          IN  /\ requests' = requests \ hit
              /\ Answer(q, id, NULL, 200,
                        IF hit = {} THEN "deleted:0" ELSE "deleted:1")
    /\ UNCHANGED <<users, payments, nextId, started>>

\* DELETE /admin/requests/:id
AdminDelete(q) ==
    /\ calls[q].op = "adminDelete" /\ calls[q].stage = "handler"
    /\ \E id \in ReqIds :
          LET hit == FindRequest(id)
          IN  /\ requests' = requests \ hit
              /\ Answer(q, id, NULL, 200,
                        IF hit = {} THEN "deleted:0" ELSE "deleted:1")
    /\ UNCHANGED <<users, payments, nextId, started>>

-----------------------------------------------------------------------------
(* Payments                                                                *)

Session(sid) == CHOOSE s \in Sessions : s.sid = sid

\* Amount without the division: the minor units are stored as they are
AmountInMinorUnits(amount_total) == [units |-> amount_total, hundredths |-> 0]

\* session.amount_total / 100, kept exact: units and hundredths
Amount(amount_total) ==
    [units |-> amount_total \div 100, hundredths |-> amount_total % 100]

\* the donateAmount a checkout body may carry, as a decimal number
DonateAmounts ==
    { [units |-> 25, hundredths |-> 0], [units |-> 7, hundredths |-> 0],
      [units |-> 9, hundredths |-> 0], [units |-> 25, hundredths |-> 70] }

\* parseInt(donateAmount): the integer digits before the decimal point
ParseInt(x) == x.units

\* POST /create-payment-checkout: stripe.checkout.sessions.create with one
\* line item of unit_amount parseInt(donateAmount) * 100 and quantity 1; the
\* provider answers with the session it created, whose amount_total is the
\* sum of its line items
CreateCheckout(q) ==
    /\ calls[q].op = "createCheckout" /\ calls[q].stage = "handler"
    /\ \E donateAmount \in DonateAmounts, donorEmail \in Emails :
          LET amount == ParseInt(donateAmount) * 100
              quantity == 1
          IN  \E session \in Sessions :
                 /\ session.amount_total = amount * quantity
                 /\ session.customer_email = donorEmail
                 /\ calls' = [calls EXCEPT ![q].stage = "done",
                                           ![q].amount = donateAmount,
                                           ![q].key = session.sid,
                                           ![q].res = Res(200, "url")]
    /\ UNCHANGED <<Stores, started>>

\* the payment document built from a session
Payment(s) ==
    [amount |-> Amount(s.amount_total), donorEmail |-> s.customer_email,
     transactionId |-> s.payment_intent, status |-> s.payment_status]

\* SuccessRetrieve without the `payment_status === "paid"` test
SuccessRetrieveAnyStatus(q) ==
    /\ calls[q].op = "successPayment" /\ calls[q].stage = "handler"
    /\ \E s \in Sessions :
          calls' = [calls EXCEPT ![q].stage = "findOne", ![q].key = s.sid]
    /\ UNCHANGED <<Stores, started>>

\* SuccessFind without the `if (!exists)` test
SuccessFindAlwaysInsert(q) ==
    /\ calls[q].op = "successPayment" /\ calls[q].stage = "findOne"
    /\ Goto(q, "insertOne")
    /\ UNCHANGED <<Stores, started>>

\* GET /success-payment, first await: stripe.checkout.sessions.retrieve.
\* A session that is not paid ends the handler without any res.send.
SuccessRetrieve(q) ==
    /\ calls[q].op = "successPayment" /\ calls[q].stage = "handler"
    /\ \E s \in Sessions :
          IF s.payment_status = "paid"
          THEN calls' = [calls EXCEPT ![q].stage = "findOne", ![q].key = s.sid]
          ELSE calls' = [calls EXCEPT ![q].stage = "done", ![q].key = s.sid]
    /\ UNCHANGED <<Stores, started>>

\* second await: paymentCollection.findOne({transactionId})
SuccessFind(q) ==
    /\ calls[q].op = "successPayment" /\ calls[q].stage = "findOne"
    /\ IF FindPayment(Session(calls[q].key).payment_intent) # {}
       THEN Respond(q, 200, "success")
       ELSE Goto(q, "insertOne")
    /\ UNCHANGED <<Stores, started>>

\* third await: paymentCollection.insertOne(payment), then res.send
SuccessInsert(q) ==
    /\ calls[q].op = "successPayment" /\ calls[q].stage = "insertOne"
    /\ Len(payments) < MaxPays
    /\ payments' = Append(payments, Payment(Session(calls[q].key)))
    /\ Respond(q, 200, "success")
    /\ UNCHANGED <<users, requests, nextId, started>>

-----------------------------------------------------------------------------

Next ==
    \E q \in Procs :
       \/ \E op \in Ops, token \in Tokens \cup {NULL} : Start(q, op, token)
       \/ verifyFBToken(q)
       \/ verifyAdmin(q)
       \/ verifyVolunteer(q)
       \/ verifyDonor(q)
       \/ CreateUserFind(q)
       \/ CreateUserInsert(q)
       \/ SetUserStatus(q)
       \/ MakeVolunteer(q)
       \/ PatchProfile(q)
       \/ CreateRequest(q)
       \/ MyRequestsFind(q)
       \/ MyRequestsCount(q)
       \/ VolunteerRequests(q)
       \/ ClaimFind(q)
       \/ ClaimUpdate(q)
       \/ NewObjectIdThrows(q)
       \/ OwnerStatus(q)
       \/ AdminStatus(q)
       \/ VolunteerStatus(q)
       \/ OwnerDelete(q)
       \/ AdminDelete(q)
       \/ SuccessRetrieve(q)
       \/ SuccessFind(q)
       \/ SuccessInsert(q)

Spec == Init /\ [][Next]_vars

\* clients that only claim requests
StartClaim(q, token) == Accept(q, "claim", token, MaxClaimCalls)

ClaimNext ==
    \E q \in Procs :
       \/ \E token \in Tokens : StartClaim(q, token)
       \/ verifyFBToken(q)
       \/ ClaimFind(q)
       \/ ClaimUpdate(q)

ClaimSpec == Init /\ [][ClaimNext]_vars

\* clients that only land on the payment success page
StartPayment(q) == Accept(q, "successPayment", NULL, MaxPayCalls)

PayNext ==
    \E q \in Procs :
       \/ StartPayment(q)
       \/ SuccessRetrieve(q)
       \/ SuccessFind(q)
       \/ SuccessInsert(q)

PaySpec == Init /\ [][PayNext]_vars

\* the same clients, one call after the other: a call is accepted only when
\* no other call is in flight
NoneInFlight == \A p \in Procs : calls[p].stage \in {"idle", "done"}

StartPaymentSeq(q) == NoneInFlight /\ StartPayment(q)

PaySeqNext ==
    \E q \in Procs :
       \/ StartPaymentSeq(q)
       \/ SuccessRetrieve(q)
       \/ SuccessFind(q)
       \/ SuccessInsert(q)

PaySeqSpec == Init /\ [][PaySeqNext]_vars

\* clients that start a checkout and land on the success page, one call
\* after the other
CheckoutOps == {"createCheckout", "successPayment"}

StartCheckout(q, op) == NoneInFlight /\ Accept(q, op, NULL, MaxPayCalls)

CheckoutSeqNext ==
    \E q \in Procs :
       \/ \E op \in CheckoutOps : StartCheckout(q, op)
       \/ CreateCheckout(q)
       \/ SuccessRetrieve(q)
       \/ SuccessFind(q)
       \/ SuccessInsert(q)

CheckoutSeqSpec == Init /\ [][CheckoutSeqNext]_vars

\* clients that only claim requests, one call after the other
StartClaimSeq(q, token) == NoneInFlight /\ StartClaim(q, token)

ClaimSeqNext ==
    \E q \in Procs :
       \/ \E token \in Tokens : StartClaimSeq(q, token)
       \/ verifyFBToken(q)
       \/ ClaimFind(q)
       \/ ClaimUpdate(q)

ClaimSeqSpec == Init /\ [][ClaimSeqNext]_vars

\* clients that create, delete and list requests, one call after the other
ListClientOps == {"createRequest", "adminDelete", "myRequests", "adminRequests"}

StartList(q, op, token) == NoneInFlight /\ Accept(q, op, token, MaxListCalls)

ListSeqNext ==
    \E q \in Procs :
       \/ \E op \in ListClientOps, token \in Tokens : StartList(q, op, token)
       \/ verifyFBToken(q)
       \/ verifyAdmin(q)
       \/ verifyDonor(q)
       \/ CreateRequest(q)
       \/ AdminDelete(q)
       \/ MyRequestsFind(q)
       \/ MyRequestsCount(q)
       \/ AdminRequestsFind(q)
       \/ AdminRequestsCount(q)

ListSeqSpec == Init /\ [][ListSeqNext]_vars

\* clients that read users and requests, next to an admin who blocks users
\* and deletes requests and to sign-ups, one call after the other
ReadClientOps == ReadOps \cup {"createUser", "setUserStatus", "adminDelete"}

StartRead(q, op, token) == NoneInFlight /\ Accept(q, op, token, MaxReadCalls)

ReadSeqNext ==
    \E q \in Procs :
       \/ \E op \in ReadClientOps, token \in Tokens \cup {NULL} :
             StartRead(q, op, token)
       \/ verifyFBToken(q)
       \/ verifyAdmin(q)
       \/ CreateUserFind(q)
       \/ CreateUserInsert(q)
       \/ GetRole(q)
       \/ SetUserStatus(q)
       \/ AdminRequestsFind(q)
       \/ AdminRequestsCount(q)
       \/ GetRequest(q)
       \/ NewObjectIdThrows(q)
       \/ AdminDelete(q)

ReadSeqSpec == Init /\ [][ReadSeqNext]_vars

\* clients of every route, one call after the other
StartSeq(q, op, token) == NoneInFlight /\ Accept(q, op, token, MaxSeqCalls)

SeqNext ==
    \E q \in Procs :
       \/ \E op \in Ops, token \in Tokens \cup {NULL} : StartSeq(q, op, token)
       \/ verifyFBToken(q)
       \/ verifyAdmin(q)
       \/ verifyVolunteer(q)
       \/ verifyDonor(q)
       \/ CreateUserFind(q)
       \/ CreateUserInsert(q)
       \/ SetUserStatus(q)
       \/ MakeVolunteer(q)
       \/ PatchProfile(q)
       \/ CreateRequest(q)
       \/ MyRequestsFind(q)
       \/ MyRequestsCount(q)
       \/ VolunteerRequests(q)
       \/ ClaimFind(q)
       \/ ClaimUpdate(q)
       \/ NewObjectIdThrows(q)
       \/ OwnerStatus(q)
       \/ AdminStatus(q)
       \/ VolunteerStatus(q)
       \/ OwnerDelete(q)
       \/ AdminDelete(q)
       \/ SuccessRetrieve(q)
       \/ SuccessFind(q)
       \/ SuccessInsert(q)

SeqSpec == Init /\ [][SeqNext]_vars

-----------------------------------------------------------------------------
(* Properties                                                              *)

\* the call in slot q takes its step at `stage` in this transition
Steps(q, op, stage) ==
    /\ calls[q].op = op /\ calls[q].stage = stage
    /\ calls'[q] # calls[q]

\* slot q holds a claim of request id that was answered with a success
ClaimSucceeded(q, id) ==
    /\ calls[q].op = "claim" /\ calls[q].stage = "done"
    /\ calls[q].id = id /\ calls[q].res.code = 200

\* C1: of the claims that distinct callers run on the same pending request,
\* only one is answered with a success; the other one is rejected.  (Under
\* ClaimSpec a request never returns to pending, so two successes on one
\* request are two winners of the same race.)
C1_ClaimRace ==
    \A q1 \in Procs, q2 \in Procs, id \in ReqIds :
       (q1 # q2 /\ ClaimSucceeded(q1, id) /\ ClaimSucceeded(q2, id))
       => calls[q1].token = calls[q2].token

\* C2: under any interleaving of claims, the donor identity recorded on a
\* request is never replaced once it is set
C2_DonorWrittenOnce ==
    [][\A r \in requests : \A r2 \in requests' :
          (r2.id = r.id /\ r.donorEmail # NULL)
          => r2.donorEmail = r.donorEmail]_vars

\* C3: the write of a claim changes nothing, and the claim is answered with
\* the "not available" rejection, when the request is no longer pending at
\* the moment of the write because an override or an owner update of another
\* call came in between
C3_ClaimWriteRechecksStatus ==
    [][\A q \in Procs :
          (/\ Steps(q, "claim", "updateOne")
           /\ \A p \in Procs : p # q => calls[p].op # "claim"
           /\ \E r \in requests :
                 r.id = calls[q].id
                 /\ r.status \in {"inprogress", "done", "canceled"})
          => (requests' = requests /\ calls'[q].res.code = 400)]_vars

\* C4: the payment store never holds two records with the same transaction
\* identifier, however the finalize-payment calls interleave
C4_OnePaymentPerTransaction ==
    \A i \in 1..Len(payments), j \in 1..Len(payments) :
       payments[i].transactionId = payments[j].transactionId => i = j

\* the records of store with transaction identifier txn
RecordsOf(store, txn) ==
    {i \in 1..Len(store) : store[i].transactionId = txn}

\* the finalize-payment call in slot q ends in this transition
PaymentEnds(q) ==
    /\ calls[q].op = "successPayment"
    /\ calls[q].stage \in {"handler", "findOne", "insertOne"}
    /\ calls'[q].stage = "done"

\* slot q holds a finalize-payment call on session sid that was answered
PaymentAnswered(q, sid) ==
    /\ calls[q].op = "successPayment" /\ calls[q].stage = "done"
    /\ calls[q].key = sid /\ calls[q].res = Res(200, "success")

\* C5: finalize-payment calls made one after another are idempotent: every
\* call that reports the paid outcome ends with exactly one record for its
\* transaction id, and a call that finds a record leaves the store as it was
C5_PaymentIdempotent ==
    [][\A q \in Procs :
          (PaymentEnds(q) /\ calls'[q].res = Res(200, "success"))
          => LET txn == Session(calls'[q].key).payment_intent
             IN  /\ Cardinality(RecordsOf(payments', txn)) = 1
                 /\ RecordsOf(payments, txn) # {} => payments' = payments]_vars

C5_Witness ==
    /\ PaymentAnswered(1, "s1") /\ PaymentAnswered(2, "s1")
    /\ payments = <<Payment(Session("s1"))>>

\* C6: a finalize-payment call (calls made one after another) inserts its
\* Payment record if and only if the provider outcome is paid and the store
\* holds no record with that transaction id; it changes the store in no
\* other way, so a call whose outcome is not paid leaves the store unchanged
C6_InsertIffPaidAndAbsent ==
    [][\A q \in Procs :
          /\ PaymentEnds(q)
             => LET s == Session(calls'[q].key)
                IN  /\ payments' = Append(payments, Payment(s))
                       <=> (s.payment_status = "paid"
                            /\ RecordsOf(payments, s.payment_intent) = {})
                    /\ payments' # payments
                       => payments' = Append(payments, Payment(s))
          /\ (calls'[q] # calls[q] /\ ~PaymentEnds(q))
             => payments' = payments]_vars

C6_Witness ==
    /\ PaymentAnswered(1, "s1")
    /\ calls[2].op = "successPayment" /\ calls[2].stage = "done"
    /\ calls[2].key = "s3"
    /\ payments = <<Payment(Session("s1"))>>

\* the role a guard stage asks for
GuardStages == {"verifyDonor", "verifyVolunteer"}
GuardRole(stage) == IF stage = "verifyDonor" THEN "donor" ELSE "volunteer"

\* the routes behind a guard stage
GuardedOps(stage) ==
    {op \in Ops \cup ReadOps :
        \E k \in 1..Len(Chain(op)) : Chain(op)[k] = stage}

\* the stored user of the caller of slot q has role `role` and status `status`
CallerIs(q, role, status) ==
    /\ HasUser(calls[q].token)
    /\ FindUser(calls[q].token).role = role
    /\ FindUser(calls[q].token).status = status

\* C7: a donor-guarded (volunteer-guarded) operation is rejected with 403
\* when the caller has no user record, has another role or is blocked, and
\* passes the guard when the caller is an active donor (volunteer); the
\* handler of a guarded route is entered only through its guard
C7_RoleGuards ==
    [][\A q \in Procs : \A stage \in GuardStages :
          /\ (calls[q].stage = stage /\ calls'[q] # calls[q])
             => LET role == GuardRole(stage)
                IN  /\ (\/ ~HasUser(calls[q].token)
                        \/ FindUser(calls[q].token).role # role
                        \/ FindUser(calls[q].token).status = "blocked")
                       => (calls'[q].stage = "done" /\ calls'[q].res.code = 403)
                    /\ CallerIs(q, role, "active")
                       => (calls'[q].stage = "handler" /\ calls'[q].res = NoRes)
          /\ (/\ calls'[q].op \in GuardedOps(stage)
              /\ calls[q].stage # "handler" /\ calls'[q].stage = "handler")
             => (calls[q].stage = stage /\ calls[q].op = calls'[q].op)]_vars

C7_Witness ==
    /\ calls[1].op = "createRequest" /\ calls[1].token = "d2"
    /\ calls[1].res = Res(403, "User is blocked")
    /\ calls[2].op = "volunteerStatus" /\ calls[2].token = "v"
    /\ calls[2].res = Res(200, "matched:1")
    /\ CallerIs(1, "donor", "blocked") /\ CallerIs(2, "volunteer", "active")

\* C8: a call that the authentication guard or a role guard rejects (401,
\* 403) mutates no store: no step of the call changes the user, request or
\* payment store, and no guard stage ever does
C8_RejectedCallMutatesNothing ==
    [][\A q \in Procs :
          (/\ calls'[q] # calls[q]
           /\ \/ calls[q].res.code \in {401, 403}
              \/ calls'[q].res.code \in {401, 403}
              \/ calls[q].stage \in {"verifyFBToken", "verifyAdmin",
                                     "verifyDonor", "verifyVolunteer"})
          => Stores' = Stores]_vars

C8_Witness ==
    /\ calls[1].op = "createRequest" /\ calls[1].res = Res(403, "Donor only")
    /\ calls[2].op = "adminDelete" /\ calls[2].res = Res(401, "Unauthorized")
    /\ requests = InitRequests /\ nextId = 2

\* C9: the guards resolve role and status from the user store at every call:
\* a donor (volunteer) whose stored status is blocked when the guard runs is
\* answered "User is blocked", and one whose stored status is active passes,
\* whatever the status was at earlier calls
C9_GuardReadsCurrentStatus ==
    [][\A q \in Procs : \A stage \in GuardStages :
          (calls[q].stage = stage /\ calls'[q] # calls[q])
          => /\ CallerIs(q, GuardRole(stage), "blocked")
                => calls'[q].res = Res(403, "User is blocked")
             /\ CallerIs(q, GuardRole(stage), "active")
                => calls'[q].stage = "handler"]_vars

\* the admin's set-user-status call blocked d1 (active when the server
\* started), and the request d1 then made was rejected
C9_Witness ==
    /\ started = 2
    /\ calls[1].op = "setUserStatus" /\ calls[1].token = "a"
    /\ calls[1].res = Res(200, "matched:1")
    /\ calls[2].op = "createRequest" /\ calls[2].token = "d1"
    /\ calls[2].res = Res(403, "User is blocked")

\* C10: an owner-scoped status update changes the status of a request only
\* if the caller is its requester, its status is inprogress and the new
\* status is done or canceled
C10_OwnerUpdateOnlyFromInProgress ==
    [][\A q \in Procs :
          Steps(q, "ownerStatus", "handler")
          => \A r \in requests : \A r2 \in requests' :
                (r2.id = r.id /\ r2.status # r.status)
                => /\ r.requesterEmail = calls[q].token
                   /\ r.status = "inprogress"
                   /\ r2.status \in {"done", "canceled"}]_vars

\* the owner-scoped routes
OwnerOps == {"ownerStatus", "ownerDelete"}

\* C11: no owner-scoped status update and no owner-scoped delete changes or
\* removes a request whose stored requester is not the caller (so no sequence
\* of such calls by a donor who did not create the request does)
C11_NonOwnerChangesNothing ==
    [][\A q \in Procs :
          (calls[q].op \in OwnerOps /\ calls[q].stage = "handler"
           /\ calls'[q] # calls[q])
          => \A r \in requests :
                r.requesterEmail # calls[q].token => r \in requests']_vars

\* d2, an active donor, tried to close and to delete request 1 of d1
C11_Witness ==
    /\ CallerIs(1, "donor", "active") /\ calls[1].token = "d2"
    /\ calls[1].op = "ownerStatus" /\ calls[1].id = 1 /\ calls[1].key = "done"
    /\ calls[1].res = Res(200, "matched:0")
    /\ calls[2].op = "ownerDelete" /\ calls[2].token = "d2" /\ calls[2].id = 1
    /\ calls[2].res = Res(200, "deleted:0")
    /\ requests = InitRequests

\* C12: an owner-scoped status update or delete whose conditional write
\* matches no request (unknown id, caller not the requester, or for the
\* status update a status other than inprogress) is answered NotFound (404)
C12_NoMatchIsNotFound ==
    [][\A q \in Procs :
          (calls[q].op \in OwnerOps /\ calls[q].stage = "handler"
           /\ calls'[q] # calls[q]
           /\ ~ \E r \in requests :
                   /\ r.id = calls'[q].id
                   /\ r.requesterEmail = calls[q].token
                   /\ calls[q].op = "ownerStatus" => r.status = "inprogress")
          => calls'[q].res.code = 404]_vars

\* the routes of the privileged status override
OverrideOps == {"adminStatus", "volunteerStatus"}

\* C13: a status override by an admin or a volunteer that names an existing
\* request and a status s of {pending, inprogress, done, canceled} sets the
\* status of that request to s and reports the match, whatever the current
\* status is; an admin delete of an existing request removes it, whatever
\* its status and requester
C13_OverrideFromEveryState ==
    [][\A q \in Procs : \A r \in requests :
          (calls[q].stage = "handler" /\ calls'[q] # calls[q]
           /\ r.id = calls'[q].id)
          => /\ (calls[q].op \in OverrideOps /\ calls'[q].key \in ReqStatuses)
                => /\ requests' = (requests \ {r}) \cup
                                      {[r EXCEPT !.status = calls'[q].key]}
                   /\ calls'[q].res = Res(200, "matched:1")
             /\ calls[q].op = "adminDelete"
                => /\ requests' = requests \ {r}
                   /\ calls'[q].res = Res(200, "deleted:1")]_vars

\* the admin closed request 1 as done, and the volunteer's later override of
\* the closed request to canceled was applied
C13_Witness ==
    /\ calls[1].op = "adminStatus" /\ calls[1].id = 1 /\ calls[1].key = "done"
    /\ calls[1].res = Res(200, "matched:1")
    /\ calls[2].op = "volunteerStatus" /\ calls[2].id = 1
    /\ calls[2].key = "canceled" /\ calls[2].res = Res(200, "matched:1")
    /\ \E r \in requests : r.id = 1 /\ r.status = "canceled"

\* C14: every stored request has a status of {pending, inprogress, done,
\* canceled}, whatever bodies the create, claim and status-update calls
\* carried (a disallowed value is rejected and never stored)
C14_StatusDomain == \A r \in requests : r.status \in ReqStatuses

\* C15: the donor fields (donorEmail, donorName) of a stored request are
\* null if and only if its status is pending (stated for the requests whose
\* status is one of the four values)
C15_DonorNullIffPending ==
    \A r \in requests :
       r.status \in ReqStatuses
       => ((r.donorEmail = NULL /\ r.donorName = NULL) <=> r.status = "pending")

\* C16: the user store holds at most one record per email, however the
\* create-user calls interleave
C16_OneUserPerEmail ==
    \A i \in 1..Len(users), j \in 1..Len(users) :
       users[i].email = users[j].email => i = j

\* C17: a profile edit changes neither the email, nor the role, nor the
\* status of any user record, whatever its body carries
C17_ProfileKeepsRoleAndStatus ==
    [][\A q \in Procs :
          Steps(q, "patchProfile", "handler")
          => /\ Len(users') = Len(users)
             /\ \A i \in 1..Len(users) :
                   /\ users'[i].email = users[i].email
                   /\ users'[i].role = users[i].role
                   /\ users'[i].status = users[i].status]_vars

\* C18: the admin guard looks at the role only: a caller whose stored role
\* is admin goes on to the handler of every admin-guarded route, active or
\* blocked, and every other caller (another role, no user record) is
\* answered 403 Forbidden; the handlers of these routes are entered only
\* through the guard
C18_AdminGuardRoleOnly ==
    [][\A q \in Procs :
          /\ (calls[q].stage = "verifyAdmin" /\ calls'[q] # calls[q])
             => IF HasUser(calls[q].token)
                   /\ FindUser(calls[q].token).role = "admin"
                THEN calls'[q].stage = "handler" /\ calls'[q].res = NoRes
                ELSE /\ calls'[q].stage = "done"
                     /\ calls'[q].res = Res(403, "Forbidden")
          /\ (/\ calls'[q].op \in GuardedOps("verifyAdmin")
              /\ calls[q].stage # "handler" /\ calls'[q].stage = "handler")
             => (calls[q].stage = "verifyAdmin"
                 /\ calls[q].op = calls'[q].op)]_vars

\* admin a blocked their own account, and a's next call, a delete of
\* request 1, was served
C18_Witness ==
    /\ calls[1].op = "setUserStatus" /\ calls[1].token = "a"
    /\ calls[1].res = Res(200, "matched:1")
    /\ CallerIs(2, "admin", "blocked") /\ calls[2].token = "a"
    /\ calls[2].op = "adminDelete" /\ calls[2].id = 1
    /\ calls[2].res = Res(200, "deleted:1")

\* C19: a create stores exactly one new request, with status pending and
\* with the caller's verified email as requester, whatever the body carried;
\* and no step of any call changes the requester of a stored request
C19_CreatedPendingByCaller ==
    [][/\ \A q \in Procs :
             Steps(q, "createRequest", "handler")
             => \E r \in requests' :
                   /\ r \notin requests /\ requests' = requests \cup {r}
                   /\ r.status = "pending"
                   /\ r.requesterEmail = calls[q].token
       /\ \A r \in requests : \A r2 \in requests' :
             r2.id = r.id => r2.requesterEmail = r.requesterEmail]_vars

\* d1 created request 2 with a body naming d2 as requester and done as
\* status, and d2 then claimed it
C19_Witness ==
    /\ calls[1].op = "createRequest" /\ calls[1].token = "d1"
    /\ calls[1].id = 2 /\ calls[1].key = "d2"
    /\ calls[1].res = Res(200, "inserted")
    /\ calls[2].op = "claim" /\ calls[2].token = "d2" /\ calls[2].id = 2
    /\ calls[2].res = Res(200, "matched:1")
    /\ \E r \in requests :
          r.id = 2 /\ r.requesterEmail = "d1" /\ r.status = "inprogress"

\* C20: with calls made one after another, a claim of a pending request
\* goes on to its write, and the write sets the status of that request to
\* inprogress and its donor to the caller's verified email; a claim of a
\* request that is not pending is rejected (400 "Not available") and leaves
\* the request store, so its status and donor fields, unchanged
C20_SequentialClaims ==
    [][\A q \in Procs :
          /\ Steps(q, "claim", "handler")
             => \A r \in requests :
                   r.id = calls'[q].id
                   => IF r.status = "pending"
                      THEN calls'[q].stage = "updateOne"
                      ELSE /\ calls'[q].res = Res(400, "Not available")
                           /\ requests' = requests
          /\ Steps(q, "claim", "updateOne")
             => \E r \in requests : \E dn \in DonorNames :
                   /\ r.id = calls[q].id /\ r.status = "pending"
                   /\ requests' = (requests \ {r}) \cup
                         {[r EXCEPT !.status = "inprogress",
                                    !.donorEmail = calls[q].token,
                                    !.donorName = dn]}
                   /\ calls'[q].res = Res(200, "matched:1")]_vars

\* d2 claimed request 1, and the claim x made afterwards was rejected
C20_Witness ==
    /\ started = 2
    /\ calls[1].op = "claim" /\ calls[1].token = "d2" /\ calls[1].id = 1
    /\ calls[1].res = Res(200, "matched:1")
    /\ calls[2].op = "claim" /\ calls[2].token = "x" /\ calls[2].id = 1
    /\ calls[2].res = Res(400, "Not available")
    /\ \E r \in requests :
          r.id = 1 /\ r.status = "inprogress" /\ r.donorEmail = "d2"

\* C21: with calls made one after another, a paged list (own requests, all
\* requests) with page p and size S over a filter matching N requests
\* returns total = N and the requests at positions S*(p-1)+1 .. min(S*p, N)
\* of the creation-time-descending order of the matching requests
C21_PagedList ==
    [][\A q \in Procs :
          (calls[q].op \in ListOps /\ calls[q].stage = "countDocuments"
           /\ calls'[q] # calls[q])
          => LET match == IF calls[q].op = "myRequests"
                          THEN {r \in requests :
                                  r.requesterEmail = calls[q].token}
                          ELSE requests
                 N == Cardinality(match)
                 S == calls[q].size
                 p == calls[q].page
                 first == S * (p - 1) + 1
                 last == IF S * p < N THEN S * p ELSE N
                 found == calls'[q].found
             IN  /\ S >= 1 /\ p >= 1
                 /\ calls'[q].total = N
                 /\ Len(found) = IF last >= first THEN last - first + 1 ELSE 0
                 /\ \A k \in 1..Len(found) :
                       \E r \in match :
                          /\ r.id = found[k]
                          /\ Cardinality({o \in match :
                                CreatedAt(o) > CreatedAt(r)}) = first + k - 2]_vars

\* d1 created request 2 and then read page 2 of size 1 of their requests:
\* the older request 1, total 2
C21_Witness ==
    /\ started = 2
    /\ calls[1].op = "createRequest" /\ calls[1].token = "d1"
    /\ calls[1].res = Res(200, "inserted")
    /\ calls[2].op = "myRequests" /\ calls[2].token = "d1"
    /\ calls[2].stage = "done" /\ calls[2].page = 2 /\ calls[2].size = 1
    /\ calls[2].found = <<1>> /\ calls[2].total = 2

\* C22: a handler that takes a request or user identifier and is called
\* with a malformed one answers InvalidInput (400) and performs no storage
\* read or write
C22_MalformedIdIsInvalidInput ==
    [][\A q \in Procs :
          (calls[q].op \in IdOps /\ calls[q].stage = "handler"
           /\ calls'[q] # calls[q] /\ calls'[q].id = MalformedId)
          => (calls'[q].res.code = 400 /\ Stores' = Stores)]_vars

\* C23: every stored user has a status of {active, blocked} and a role of
\* {donor, volunteer, admin}
C23_UserDomain ==
    \A i \in 1..Len(users) :
       users[i].status \in UserStatuses /\ users[i].role \in Roles

\* C26: every finalize-payment call whose handler has ended was sent a
\* response, whether the provider session is paid or not
C26_PaymentAlwaysAnswered ==
    \A q \in Procs :
       (calls[q].op = "successPayment" /\ calls[q].stage = "done")
       => calls[q].res # NoRes

\* C27: no step of a call whose caller is not a stored admin makes a user
\* record an admin or turns a donor into a volunteer
C27_NoEscalationWithoutAdmin ==
    [][\A q \in Procs :
          (/\ calls'[q] # calls[q] /\ calls[q].stage # "idle"
           /\ calls[q].stage # "done"
           /\ ~ (/\ calls[q].token \in Emails
                 /\ HasUser(calls[q].token)
                 /\ FindUser(calls[q].token).role = "admin"))
          => /\ \A i \in 1..Len(users') :
                   users'[i].role = "admin"
                   => (i <= Len(users) /\ users[i].role = "admin")
             /\ \A i \in 1..Len(users) :
                   users[i].role = "donor" => users'[i].role # "volunteer"]_vars

\* C24: the amount of every stored payment is the provider's amount_total
\* divided by 100 (units * 100 + hundredths = amount_total), and the payment
\* recorded for the session of a checkout started with a whole amount A has
\* amount A
C24_AmountIsMajorUnits ==
    /\ \A i \in 1..Len(payments) :
          \E s \in Sessions :
             /\ s.payment_intent = payments[i].transactionId
             /\ payments[i].amount.hundredths \in 0..99
             /\ payments[i].amount.units * 100 + payments[i].amount.hundredths
                  = s.amount_total
    /\ \A q \in Procs :
          (/\ calls[q].op = "createCheckout" /\ calls[q].stage = "done"
           /\ calls[q].res.code = 200 /\ calls[q].amount.hundredths = 0)
          => \A i \in 1..Len(payments) :
                payments[i].transactionId = Session(calls[q].key).payment_intent
                => payments[i].amount =
                      [units |-> calls[q].amount.units, hundredths |-> 0]

\* a checkout of 25 created session s1, and the success page of s1 stored
\* its payment
C24_Witness ==
    /\ calls[1].op = "createCheckout" /\ calls[1].key = "s1"
    /\ calls[1].amount = [units |-> 25, hundredths |-> 0]
    /\ calls[1].res = Res(200, "url")
    /\ PaymentAnswered(2, "s1")
    /\ Len(payments) = 1 /\ payments[1].transactionId = "pi1"
    /\ payments[1].amount = [units |-> 25, hundredths |-> 0]

\* C25: get-role-by-email changes nothing in the user store, returns the
\* stored role and status of the user with that email when there is one,
\* and reports "not found" (404) when there is none
C25_GetRole ==
    [][\A q \in Procs :
          Steps(q, "getRole", "handler")
          => /\ users' = users
             /\ IF HasUser(calls'[q].key)
                THEN /\ calls'[q].res.code = 200
                     /\ calls'[q].found = <<FindUser(calls'[q].key).role,
                                            FindUser(calls'[q].key).status>>
                ELSE calls'[q].res.code = 404]_vars

====
